---------------------------- MODULE Spec2Model ----------------------------
(***************************************************************************)
(* A model of cros_async's ReadVec future (src/cros_async/src/read_vec.rs) *)
(* together with the collaborators it is built on: the completion state    *)
(* machine UringFutState, the backing resource (IoSource::read_to_mem and  *)
(* IoSource::poll_complete), the kernel that completes the operation and   *)
(* the single-future driver run_one.                                       *)
(*                                                                         *)
(* One ReadVec future is followed from construction to its end.  The       *)
(* caller either polls it by hand (mode "manual": any number of polls, and *)
(* it may drop the future) or hands it to run_one (mode "run_one").        *)
(*                                                                         *)
(* The second half models the virtio balloon device                        *)
(* (src/devices/src/virtio/balloon.rs): the Balloon on the device thread,  *)
(* its worker thread, the guest that posts descriptors and the host that   *)
(* sends commands.  Spec and LiveSpec run the future with the balloon left *)
(* as constructed; BalloonSpec and BalloonLive run the balloon, and        *)
(* QueueSpec runs its worker against a guest that fills whole rings.       *)
(***************************************************************************)
EXTENDS Integers, Sequences, FiniteSets, TLC

(***************************************************************************)
(* Bounds of the model.                                                    *)
(***************************************************************************)
\* Longest buffer handed to ReadVec::new.
MaxLen == 2
\* Largest file offset handed to ReadVec::new.
MaxOffset == 1
\* Polls a manual caller makes of the one future.
MaxPolls == 4
\* Operation tokens the resource may hand out are 1..MaxToken.
MaxToken == 2
\* Reads issued one after the other against the same resource.
MaxReads == 2
\* Inputs of the balloon: the guest's queue events, the host's datagrams
\* and the calls of write_config and keep_fds, taken together.
MaxInputs == 2
\* Page frames of guest memory are 0..MemPages-1.
MemPages == 3

(***************************************************************************)
(* Values.                                                                 *)
(***************************************************************************)
\* The byte the test pre-fills the buffer with (0x55).
Fill == 85
\* The bytes a source may deliver: the always-zero source, and another one.
SrcBytes == {0, 7}
\* The identity of the allocation handed to ReadVec::new.
InputId == "input"
Tokens == 1..MaxToken
SubmitErrors == {"SubmissionError"}
CompletionErrors == {"CompletionError"}

\* ---- the balloon device ----
QUEUE_SIZE == 128
VIRTIO_BALLOON_PFN_SHIFT == 12
\* The interrupt status bits, by name.
INTERRUPT_STATUS_USED_RING == "USED_RING"
INTERRUPT_STATUS_CONFIG_CHANGED == "CONFIG_CHANGED"
\* The worker's poll tokens, in the order of the slice given to the poller.
POLL_INFLATE == "INFLATE"
POLL_DEFLATE == "DEFLATE"
POLL_COMMAND_SOCKET == "COMMAND_SOCKET"
POLL_KILL == "KILL"
\* A usize is four 16-bit limbs, the least significant first; a u32 or an
\* i32 is the two low limbs.
Limb == 2^16
I32Min == -2147483647 - 1
ZeroPages == <<0, 0, 0, 0>>
\* The configuration writes the guest makes: at the offset of actual_pages and
\* beside it, four bytes and fewer and more.
CfgWrites == { [offset |-> 4, data |-> <<0, 1, 0, 128>>],
               [offset |-> 0, data |-> <<0, 1, 0, 128>>],
               [offset |-> 4, data |-> <<1, 2>>],
               [offset |-> 4, data |-> <<7, 0, 0, 0, 0>>] }
\* The datagrams the host sends: +2, -1, the most negative increment, and
\* two bytes only.
Datagrams == {<<2, 0, 0, 0>>, <<255, 255, 255, 255>>, <<0, 0, 0, 128>>, <<1, 0>>}
\* The descriptors the guest posts.  len is the descriptor's length, room
\* the number of 4-byte entries for which addr + 4 * i does not overflow,
\* and mem what guest memory holds at each entry: a page frame number, or -1
\* where the address cannot be read.
ValidDesc == [write_only |-> FALSE, len |-> 8, room |-> 2, mem |-> <<1, 9>>]
WriteOnlyDesc == [write_only |-> TRUE, len |-> 4, room |-> 1, mem |-> <<2>>]
OddLenDesc == [write_only |-> FALSE, len |-> 6, room |-> 1, mem |-> <<2>>]
HolesDesc == [write_only |-> FALSE, len |-> 12, room |-> 2, mem |-> <<-1, 0, 1>>]
\* What the guest posts before it signals a queue event: nothing, or a few
\* descriptors.
Postings == { <<>>, <<ValidDesc, WriteOnlyDesc, OddLenDesc, HolesDesc>> }
\* The same, and a whole ring of descriptors.
RingPostings ==
    Postings \cup { [k \in 1..QUEUE_SIZE |-> IF k % 2 = 1 THEN HolesDesc ELSE WriteOnlyDesc] }
NoCall == [fn |-> "none", offset |-> 0, data |-> <<>>, n |-> 0]
NoBatch == [placed |-> 0, signalled |-> FALSE]
EmptyQueue == [avail |-> <<>>, used |-> <<>>]

VARIABLES
    state,            \* ReadVec.state: the UringFutState tag
    token,            \* the operation token held by the InFlight state (0: none)
    alive,            \* the future has not been dropped
    input,            \* what ReadVec::new was given: [len, file_offset]
    holders,          \* who holds a strong reference to the Rc<VecIoWrapper>
    alloc,            \* the byte allocation: "wrapped", "caller" or "freed"
    buf,              \* the allocation's bytes
    op,               \* the operation the resource knows of
    srcByte,          \* the byte the source delivers
    retains,          \* the resource keeps its buffer handle after completion
    wakerRegistered,  \* poll_complete left the caller's waker with the channel
    polls,            \* calls of ReadVec::poll
    submits,          \* calls of read_to_mem
    pollCompletes,    \* calls of poll_complete
    lastRet,          \* what the last call of ReadVec::poll returned
    hist,             \* the completion states the future has been in, in order
    mode,             \* "manual" or "run_one"
    runPc,            \* run_one's position
    readNo,           \* which read against the resource the future is (1, 2, ..)
    prevRet,          \* what the read before this one resolved with
    \* ---- the balloon device ----
    dev,              \* the Balloon on the device thread: "alive", "panicked", "dropped"
    command_socket,   \* where the command socket is: "device", "worker", "closed"
    kill_evt,         \* Balloon.kill_evt: "None" or "Some"
    kill_written,     \* writes to the kill event
    num_pages,        \* BalloonConfig.num_pages, a usize as four 16-bit limbs
    actual_pages,     \* BalloonConfig.actual_pages, likewise
    overflow_checks,  \* the build panics on integer overflow (a debug build)
    activated,        \* Balloon::activate has been called
    last_call,        \* the last call on the Balloon: [fn, offset, data]
    wpc,              \* the worker thread's position ("none": no worker)
    tokens,           \* Worker::run: the tokens of this poll still to handle
    needs_interrupt,  \* Worker::run: needs_interrupt
    inflate_evt,      \* the inflate queue event is signalled
    deflate_evt,      \* the deflate queue event is signalled
    cmds,             \* datagrams waiting on the command socket
    inflate_queue,    \* [avail, used] of the inflate queue
    deflate_queue,    \* [avail, used] of the deflate queue
    interrupt_status, \* the interrupt status bits that are set
    interrupt_evt,    \* writes to the interrupt event
    released,         \* guest page frames handed back with dont_need_range
    kicks,            \* times the guest has signalled a queue event
    sent,             \* datagrams the host has sent
    applied,          \* the increments added to num_pages, in order
    batch,            \* this poll's batch: [placed, signalled]
    evt_for           \* the interrupts for which the interrupt event was written

rvars == <<state, token, alive, input, holders, alloc, buf, op, srcByte, retains,
           wakerRegistered, polls, submits, pollCompletes, lastRet, hist, mode, runPc,
           readNo, prevRet>>

bvars == <<dev, command_socket, kill_evt, kill_written, num_pages, actual_pages,
           overflow_checks, activated, last_call, wpc, tokens, needs_interrupt,
           inflate_evt, deflate_evt, cmds, inflate_queue, deflate_queue,
           interrupt_status, interrupt_evt, released, kicks, sent, applied, batch,
           evt_for>>

vars == <<rvars, bvars>>

(***************************************************************************)
(* Records used throughout (every record of a kind has the same fields).   *)
(***************************************************************************)
NoOp == [status |-> "none", token |-> 0, file_offset |-> 0, mem |-> <<>>,
         ok |-> FALSE, n |-> 0, err |-> "none"]
NoVec == [id |-> "none", bytes |-> <<>>]
NoRet == [kind |-> "None", ok |-> FALSE, err |-> "none", vec |-> NoVec]
PendingRet == [kind |-> "Pending", ok |-> FALSE, err |-> "none", vec |-> NoVec]
ReadyOk(v) == [kind |-> "Ready", ok |-> TRUE, err |-> "none", vec |-> v]
ReadyErr(e) == [kind |-> "Ready", ok |-> FALSE, err |-> e, vec |-> NoVec]
PanicRet(msg) == [kind |-> "Panic", ok |-> FALSE, err |-> msg, vec |-> NoVec]

\* The resource's answer to a submission: a token, or an error.
Answers == {[ok |-> TRUE, token |-> t, err |-> "none"] : t \in Tokens}
           \cup {[ok |-> FALSE, token |-> 0, err |-> e] : e \in SubmitErrors}
NoAnswer == [ok |-> FALSE, token |-> 0, err |-> "none"]
\* What the kernel does with an operation: nothing yet, or a completion.
NotYet == [done |-> FALSE, ok |-> FALSE, n |-> 0, err |-> "none"]

\* The state of everything a poll can touch, as one value.
World == [state |-> state, token |-> token, holders |-> holders, alloc |-> alloc,
          buf |-> buf, op |-> op, wakerRegistered |-> wakerRegistered,
          submits |-> submits, pollCompletes |-> pollCompletes, hist |-> hist]

\* Rc's strong count of the buffer wrapper.
strong_count(w) == Cardinality(w.holders)

\* Dropping one holder's Rc: the allocation is freed with the last reference.
drop_ref(w, who) ==
    LET left == w.holders \ {who}
    IN [w EXCEPT !.holders = left,
                 !.alloc = IF left = {} /\ w.alloc = "wrapped" THEN "freed" ELSE @]


(***************************************************************************)
(* The backing resource and the kernel.  Their code is not part of the     *)
(* files modelled here; they follow the capability's description: submit a *)
(* scatter read and get a token or an error, then ask for its completion.  *)
(***************************************************************************)
\* Bytes the descriptors of an operation ask for.
RECURSIVE requested(_)
requested(mem) == IF mem = <<>> THEN 0 ELSE Head(mem).len + requested(Tail(mem))

\* What the kernel may do with an operation that is in flight: complete it
\* with any byte count up to the one asked for, or fail it.
Outcomes(o) ==
    {[done |-> TRUE, ok |-> TRUE, n |-> n, err |-> "none"] : n \in 0..requested(o.mem)}
    \cup {[done |-> TRUE, ok |-> FALSE, n |-> 0, err |-> e] : e \in CompletionErrors}

\* The kernel writes k.n bytes of the source into the first descriptor's range.
kernel_write(w, k) ==
    LET d == Head(w.op.mem)
    IN [i \in 1..Len(w.buf) |->
          IF k.ok /\ w.op.mem # <<>> /\ i > d.offset /\ i <= d.offset + k.n
          THEN srcByte ELSE w.buf[i]]

\* The kernel completes the operation in flight: the data is written, the
\* result is recorded and the operation's buffer handle is released (a
\* resource that retains it keeps a second reference alive).
kernel_complete(w, k) ==
    LET written == [w EXCEPT !.buf = kernel_write(w, k),
                             !.op = [@ EXCEPT !.status = "complete", !.ok = k.ok,
                                              !.n = k.n, !.err = k.err]]
    IN IF retains THEN written ELSE drop_ref(written, "op")

\* IoSource::read_to_mem: takes the buffer handle; answers a token and keeps
\* the handle for the operation, or answers an error and keeps nothing (the
\* rejected request is remembered only as "rejected": nothing is outstanding).
read_to_mem(w, file_offset, mem, ans) ==
    LET counted == [w EXCEPT !.submits = @ + 1]
    IN IF ans.ok
       THEN [w |-> [counted EXCEPT !.op = [status |-> "pending", token |-> ans.token,
                                           file_offset |-> file_offset, mem |-> mem,
                                           ok |-> FALSE, n |-> 0, err |-> "none"]],
             ok |-> TRUE, token |-> ans.token, err |-> "none"]
       ELSE [w |-> drop_ref([counted EXCEPT !.op = [NoOp EXCEPT !.status = "rejected",
                                                                 !.err = ans.err]], "op"),
             ok |-> FALSE, token |-> 0, err |-> ans.err]

\* IoSource::poll_complete: Ready with the result once the operation of this
\* token has completed, otherwise Pending with the caller's waker registered.
\* k is what the kernel did with the operation since it was submitted.
poll_complete(w, tok, k) ==
    LET w1 == IF k.done /\ w.op.status = "pending" THEN kernel_complete(w, k) ELSE w
        w2 == [w1 EXCEPT !.pollCompletes = @ + 1]
    IN IF w2.op.status = "complete" /\ w2.op.token = tok
       THEN [w |-> [w2 EXCEPT !.op = [@ EXCEPT !.status = "observed"],
                              !.wakerRegistered = FALSE],
             kind |-> "Ready", ok |-> w2.op.ok, n |-> w2.op.n, err |-> w2.op.err]
       ELSE [w |-> [w2 EXCEPT !.wakerRegistered = TRUE],
             kind |-> "Pending", ok |-> FALSE, n |-> 0, err |-> "none"]

(***************************************************************************)
(* ReadVec::poll, piece by piece: first the two closures it hands to        *)
(* advance.                                                                *)
(***************************************************************************)
\* A faulty variant of mem_vecs: the descriptor is one byte short of the buffer.
mem_vecs_short(w) ==
    <<[offset |-> 0, len |-> IF Len(w.buf) > 0 THEN Len(w.buf) - 1 ELSE 0]>>

\* The descriptors of the read: one, spanning the whole buffer.
mem_vecs(w) == <<[offset |-> 0, len |-> Len(w.buf)]>>

\* A faulty variant of start_fn: the operation is handed the buffer without an Rc of
\* its own.
start_fn_no_clone(w, ans) ==
    LET r == read_to_mem(w, input.file_offset, mem_vecs(w), ans)
    IN IF r.ok
       THEN [w |-> r.w, ok |-> TRUE, token |-> r.token, err |-> "none"]
       ELSE [w |-> drop_ref(r.w, "future"), ok |-> FALSE, token |-> 0, err |-> r.err]

\* The submit closure: clone the Rc for the operation and call read_to_mem;
\* `?` returns its error, dropping the closure's own Rc with it.
start_fn(w, ans) ==
    LET cloned == [w EXCEPT !.holders = @ \cup {"op"}]
        r == read_to_mem(cloned, input.file_offset, mem_vecs(w), ans)
    IN IF r.ok
       THEN [w |-> r.w, ok |-> TRUE, token |-> r.token, err |-> "none"]
       ELSE [w |-> drop_ref(r.w, "future"), ok |-> FALSE, token |-> 0, err |-> r.err]

\* A faulty variant of complete_fn: the completion is looked up without calling
\* poll_complete while the operation is in flight, so no waker is registered.
complete_fn_no_waker(w, tok, k) ==
    LET w1 == IF k.done /\ w.op.status = "pending" THEN kernel_complete(w, k) ELSE w
    IN IF w1.op.status = "complete"
       THEN poll_complete(w1, tok, NotYet)
       ELSE [w |-> w1, kind |-> "Pending", ok |-> FALSE, n |-> 0, err |-> "none"]

\* The completion closure: poll_complete for the operation's token.
complete_fn(w, tok, k) == poll_complete(w, tok, k)

(***************************************************************************)
(* The completion state machine, UringFutState::advance.  Its code is not  *)
(* part of the files modelled here either; it follows its description:     *)
(* from NotStarted submit, and on success become InFlight; from InFlight   *)
(* ask for completion, Pending stays InFlight and Ready becomes Resolved.  *)
(* A future suspends only inside poll_complete, so the poll that submits   *)
(* goes on to ask for completion; a failed submission is terminal at once. *)
(* Any other state faults.  The two closures it is given are ReadVec's:    *)
(* start_fn with the resource's answer ans, complete_fn with the kernel's  *)
(* doing k.                                                                *)
(***************************************************************************)
visit(w, s) == [w EXCEPT !.hist = Append(@, s)]

advance_wait(w, tok, k) ==
    LET c == complete_fn(w, tok, k)
    IN IF c.kind = "Pending"
       THEN [w |-> c.w, fault |-> FALSE, ok |-> TRUE, err |-> "none",
             new_state |-> "InFlight", new_token |-> tok,
             ret |-> [kind |-> "Pending", ok |-> FALSE, n |-> 0, err |-> "none"]]
       ELSE [w |-> visit(c.w, "Resolved"), fault |-> FALSE, ok |-> TRUE, err |-> "none",
             new_state |-> "Resolved", new_token |-> 0,
             ret |-> [kind |-> "Ready", ok |-> c.ok, n |-> c.n, err |-> c.err]]

advance(w, st, tok, ans, k) ==
    CASE st = "NotStarted" ->
           LET s == start_fn(w, ans)
           IN IF s.ok
              THEN advance_wait(visit(s.w, "InFlight"), s.token, k)
              ELSE [w |-> visit(s.w, "Resolved"), fault |-> FALSE, ok |-> FALSE, err |-> s.err,
                    new_state |-> "Processing", new_token |-> 0,
                    ret |-> [kind |-> "Pending", ok |-> FALSE, n |-> 0, err |-> "none"]]
      [] st = "InFlight" -> advance_wait(w, tok, k)
      [] OTHER ->
           [w |-> w, fault |-> TRUE, ok |-> FALSE, err |-> "invalid future state",
            new_state |-> "Processing", new_token |-> 0,
            ret |-> [kind |-> "Pending", ok |-> FALSE, n |-> 0, err |-> "none"]]

\* A faulty variant of take_state: the placeholder left in self.state is a NotStarted
\* state instead of Processing.
take_state_init(w) == [w EXCEPT !.state = "NotStarted", !.token = 0]

\* let state = mem::replace(&mut self.state, UringFutState::Processing)
take_state(w) == [w EXCEPT !.state = "Processing", !.token = 0]

\* A faulty variant of store_state: the new state is not stored.
store_state_skip(w, new_state, new_token) == w

\* self.state = new_state
store_state(w, new_state, new_token) == [w EXCEPT !.state = new_state, !.token = new_token]

\* A faulty variant of unwrap_vec: the vec is taken out of the Rc whatever its count.
unwrap_vec_unchecked(w) ==
    [w |-> [w EXCEPT !.holders = @ \ {"future"}, !.alloc = "caller"],
     ret |-> ReadyOk([id |-> InputId, bytes |-> w.buf])]

\* Rc::try_unwrap(wrapped_vec).expect("too many refs on vec").into()
unwrap_vec(w) ==
    IF strong_count(w) = 1
    THEN [w |-> [w EXCEPT !.holders = {}, !.alloc = "caller"],
          ret |-> ReadyOk([id |-> InputId, bytes |-> w.buf])]
    ELSE [w |-> drop_ref(w, "future"), ret |-> PanicRet("too many refs on vec")]

\* A faulty variant of finish: the Rc is unwrapped before the result is looked at.
finish_unwrap_first(w, ret) ==
    IF ret.kind = "Pending" THEN [w |-> w, ret |-> PendingRet]
    ELSE IF strong_count(w) # 1
         THEN [w |-> drop_ref(w, "future"), ret |-> PanicRet("too many refs on vec")]
    ELSE IF ret.ok
         THEN [w |-> [w EXCEPT !.holders = {}, !.alloc = "caller"],
               ret |-> ReadyOk([id |-> InputId, bytes |-> w.buf])]
    ELSE [w |-> drop_ref(w, "future"), ret |-> ReadyErr(ret.err)]

\* A faulty variant of finish: a completion that transferred fewer bytes than the
\* buffer holds puts the future back to NotStarted, to read again.
finish_retry_partial(w, ret) ==
    IF ret.kind = "Pending" THEN [w |-> w, ret |-> PendingRet]
    ELSE IF ret.ok /\ ret.n < Len(w.buf)
         THEN [w |-> [w EXCEPT !.state = "NotStarted"], ret |-> PendingRet]
    ELSE IF ret.ok
         THEN IF strong_count(w) = 1
              THEN [w |-> [w EXCEPT !.holders = {}, !.alloc = "caller"],
                    ret |-> ReadyOk([id |-> InputId, bytes |-> w.buf])]
              ELSE [w |-> drop_ref(w, "future"), ret |-> PanicRet("too many refs on vec")]
    ELSE [w |-> drop_ref(w, "future"), ret |-> ReadyErr(ret.err)]

\* match ret { Pending => Pending, Ready((r, wrapped_vec)) => match r { .. } }
finish(w, ret) ==
    IF ret.kind = "Pending" THEN [w |-> w, ret |-> PendingRet]
    ELSE IF ret.ok THEN unwrap_vec(w)
    ELSE [w |-> drop_ref(w, "future"), ret |-> ReadyErr(ret.err)]

\* A faulty variant of on_advance_err: the submission error is swallowed and the poll
\* reports Pending.
on_advance_err_pending(w, e) == [w |-> w, ret |-> PendingRet]

\* A faulty variant of on_advance_err: the submission arguments are put back
\* into self.state before the error is returned.
on_advance_err_restore(w, e) == [w |-> [w EXCEPT !.state = "NotStarted"], ret |-> ReadyErr(e)]

\* Err(e) => return Poll::Ready(Err(e))
on_advance_err(w, e) == [w |-> w, ret |-> ReadyErr(e)]

\* A faulty variant of poll: the poll that submits returns Pending as soon as the
\* read is submitted; only later polls ask for the completion.
poll_submit_only(w, ans, k) ==
    LET a == advance(take_state(w), w.state, w.token, ans, k)
        s == start_fn(take_state(w), ans)
    IN IF w.state = "NotStarted"
       THEN IF s.ok
            THEN [w |-> store_state(visit(s.w, "InFlight"), "InFlight", s.token),
                  ret |-> PendingRet]
            ELSE on_advance_err(visit(s.w, "Resolved"), s.err)
       ELSE IF a.fault THEN [w |-> a.w, ret |-> PanicRet(a.err)]
       ELSE IF ~a.ok THEN on_advance_err(a.w, a.err)
       ELSE finish(store_state(a.w, a.new_state, a.new_token), a.ret)

\* ReadVec::poll.  ans is the resource's answer should the poll submit, k what
\* the kernel does between the submission and the completion query.
poll(w, ans, k) ==
    LET a == advance(take_state(w), w.state, w.token, ans, k)
    IN IF a.fault THEN [w |-> a.w, ret |-> PanicRet(a.err)]
       ELSE IF ~a.ok THEN on_advance_err(a.w, a.err)
       ELSE finish(store_state(a.w, a.new_state, a.new_token), a.ret)

\* Drop for ReadVec: the state's Rc, if it holds one, is released; the
\* operation is not cancelled.
drop_future(w) == IF "future" \in w.holders THEN drop_ref(w, "future") ELSE w

\* A faulty variant of new: the completion state is carried over from the
\* future before.
new_stale(w, file_offset, len) ==
    [w EXCEPT !.token = 0, !.holders = {"future"}, !.alloc = "wrapped",
              !.buf = [i \in 1..len |-> Fill], !.wakerRegistered = FALSE,
              !.submits = 0, !.pollCompletes = 0,
              !.hist = <<"NotStarted">>]

\* ReadVec::new(reader, file_offset, vec) for a later read against the same
\* reader: a fresh NotStarted state holding a fresh Rc of the vec given.  The
\* reader is left as it is.
new(w, file_offset, len) ==
    [w EXCEPT !.state = "NotStarted", !.token = 0, !.holders = {"future"},
              !.alloc = "wrapped", !.buf = [i \in 1..len |-> Fill],
              !.wakerRegistered = FALSE, !.submits = 0, !.pollCompletes = 0,
              !.hist = <<"NotStarted">>]

(***************************************************************************)
(* The state machine.                                                      *)
(***************************************************************************)
\* Balloon::new(command_socket): the device holds the socket, both page
\* counts are 0 and no kill event is recorded.  No worker runs, and the
\* queues, the interrupt and the socket's peer are as the transport and the
\* host made them.
BalloonNew ==
    /\ dev = "alive"
    /\ command_socket = "device"
    /\ kill_evt = "None"
    /\ kill_written = 0
    /\ num_pages = ZeroPages
    /\ actual_pages = ZeroPages
    /\ activated = FALSE
    /\ last_call = NoCall
    /\ wpc = "none"
    /\ tokens = <<>>
    /\ needs_interrupt = FALSE
    /\ inflate_evt = FALSE
    /\ deflate_evt = FALSE
    /\ cmds = <<>>
    /\ inflate_queue = EmptyQueue
    /\ deflate_queue = EmptyQueue
    /\ interrupt_status = {}
    /\ interrupt_evt = 0
    /\ released = {}
    /\ kicks = 0
    /\ sent = 0
    /\ applied = <<>>
    /\ batch = NoBatch
    /\ evt_for = {}

\* ReadVec::new(reader, file_offset, vec): the vec is wrapped in a fresh Rc,
\* which the NotStarted state holds.
Init ==
    /\ BalloonNew
    /\ overflow_checks = FALSE
    /\ \E len \in 0..MaxLen, off \in 0..MaxOffset :
          /\ input = [len |-> len, file_offset |-> off]
          /\ buf = [i \in 1..len |-> Fill]
    /\ state = "NotStarted"
    /\ token = 0
    /\ alive = TRUE
    /\ holders = {"future"}
    /\ alloc = "wrapped"
    /\ op = NoOp
    /\ srcByte \in SrcBytes
    /\ retains \in BOOLEAN
    /\ wakerRegistered = FALSE
    /\ polls = 0
    /\ submits = 0
    /\ pollCompletes = 0
    /\ lastRet = NoRet
    /\ hist = <<"NotStarted">>
    /\ mode \in {"manual", "run_one"}
    /\ runPc = IF mode = "run_one" THEN "poll" ELSE "idle"
    /\ readNo = 1
    /\ prevRet = NoRet

\* The variables a poll or a kernel step leaves as the world w says.
Install(w) ==
    /\ state' = w.state
    /\ token' = w.token
    /\ holders' = w.holders
    /\ alloc' = w.alloc
    /\ buf' = w.buf
    /\ op' = w.op
    /\ wakerRegistered' = w.wakerRegistered
    /\ submits' = w.submits
    /\ pollCompletes' = w.pollCompletes
    /\ hist' = w.hist

\* One call of ReadVec::poll with its inputs drawn.
PollStep ==
    \E ans \in (IF state = "NotStarted" THEN Answers ELSE {NoAnswer}) :
    \E k \in (IF state = "NotStarted" /\ ans.ok
              THEN {NotYet} \cup Outcomes([mem |-> mem_vecs(World)])
              ELSE {NotYet}) :
        LET r == poll(World, ans, k)
        IN /\ Install(r.w)
           /\ lastRet' = r.ret
           /\ polls' = polls + 1

\* A caller polls the future by hand.
Poll ==
    /\ mode = "manual"
    /\ alive
    /\ polls < MaxPolls
    /\ PollStep
    /\ UNCHANGED <<alive, input, srcByte, retains, mode, runPc, readNo, prevRet>>
    /\ UNCHANGED bvars

\* run_one polls the future: Pending blocks on the completion notification,
\* Ready returns the result.
RunOnePoll ==
    /\ mode = "run_one"
    /\ runPc = "poll"
    /\ PollStep
    /\ runPc' = CASE lastRet'.kind = "Pending" -> "blocked"
                  [] lastRet'.kind = "Ready" -> "returned"
                  [] OTHER -> "panicked"
    /\ UNCHANGED <<alive, input, srcByte, retains, mode, readNo, prevRet>>
    /\ UNCHANGED bvars

\* The kernel completes the operation in flight.
KernelCompletes ==
    /\ op.status = "pending"
    /\ \E k \in Outcomes(op) : Install(kernel_complete(World, k))
    /\ UNCHANGED <<alive, input, srcByte, retains, polls, lastRet, mode, runPc,
                   readNo, prevRet>>
    /\ UNCHANGED bvars

\* The completion notification reaches the registered waker; run_one, blocked
\* on it, goes back to polling.
Wake ==
    /\ op.status = "complete"
    /\ wakerRegistered
    /\ wakerRegistered' = FALSE
    /\ runPc' = IF runPc = "blocked" THEN "poll" ELSE runPc
    /\ UNCHANGED <<state, token, alive, input, holders, alloc, buf, op, srcByte, retains,
                   polls, submits, pollCompletes, lastRet, hist, mode, readNo, prevRet>>
    /\ UNCHANGED bvars

\* The caller drops the future before or after it resolved.
Drop ==
    /\ mode = "manual"
    /\ alive
    /\ alive' = FALSE
    /\ Install(drop_future(World))
    /\ UNCHANGED <<input, srcByte, retains, polls, lastRet, mode, runPc, readNo, prevRet>>
    /\ UNCHANGED bvars

\* The caller, whose read has resolved, issues the next read against the same
\* resource: another buffer, another offset, another future.
NewRead ==
    /\ mode = "manual"
    /\ lastRet.kind = "Ready"
    /\ readNo < MaxReads
    /\ \E len \in 0..MaxLen, off \in 0..MaxOffset :
          /\ input' = [len |-> len, file_offset |-> off]
          /\ Install(new(World, off, len))
    /\ alive' = TRUE
    /\ polls' = 0
    /\ lastRet' = NoRet
    /\ readNo' = readNo + 1
    /\ prevRet' = lastRet
    /\ UNCHANGED <<srcByte, retains, mode, runPc>>
    /\ UNCHANGED bvars

Next == Poll \/ RunOnePoll \/ KernelCompletes \/ Wake \/ Drop \/ NewRead

Spec == Init /\ [][Next]_vars

\* run_one keeps running, the kernel completes what was submitted and the
\* notification is delivered.
LiveSpec == Spec /\ WF_vars(RunOnePoll) /\ WF_vars(KernelCompletes) /\ WF_vars(Wake)

TypeOK ==
    /\ state \in {"NotStarted", "InFlight", "Resolved", "Processing"}
    /\ token \in 0..MaxToken
    /\ alive \in BOOLEAN
    /\ holders \subseteq {"future", "op"}
    /\ alloc \in {"wrapped", "caller", "freed"}
    /\ Len(buf) = input.len
    /\ op.status \in {"none", "rejected", "pending", "complete", "observed"}
    /\ lastRet.kind \in {"None", "Pending", "Ready", "Panic"}
    /\ runPc \in {"idle", "poll", "blocked", "returned", "panicked"}
    /\ readNo \in 1..MaxReads

(***************************************************************************)
(* Vocabulary of the properties.                                           *)
(***************************************************************************)
\* The completion state the future is in.  Between polls the Processing
\* placeholder is in self.state only when the state was taken by value and
\* the poll ended without a successor (a submission error, or a fault): the
\* future is terminal.
CompletionState == IF state = "Processing" THEN "Resolved" ELSE state
Rank(s) == CASE s = "NotStarted" -> 0 [] s = "InFlight" -> 1 [] OTHER -> 2
\* This step is a call of ReadVec::poll.
Polled == polls' = polls + 1
\* This step is a poll in which the operation's completion is observed.
Observed == Polled /\ op.status # "observed" /\ op'.status = "observed"
ReturnedOk == lastRet.kind = "Ready" /\ lastRet.ok
\* The resource delivered everything the operation asked for.
DeliveredAll == op.status = "observed" /\ op.ok /\ op.n = requested(op.mem)
AllZero(bytes) == \A i \in 1..Len(bytes) : bytes[i] = 0
PassedThrough(h, a, b) == \E i, j \in 1..Len(h) : i < j /\ h[i] = a /\ h[j] = b

C2_RejectedSubmissionIsTerminal ==
    (submits >= 1 /\ op.status = "rejected") =>
        /\ polls >= 1
        /\ polls = 1 => lastRet = ReadyErr(op.err)
        /\ lastRet.kind # "Pending"
        /\ state # "InFlight"
        /\ \A i \in 1..Len(hist) : hist[i] # "InFlight"
        /\ "op" \notin holders
        /\ ~wakerRegistered
        /\ pollCompletes = 0

C2_Witness ==
    /\ submits = 1
    /\ op.status = "rejected"
    /\ polls = 1
    /\ lastRet = ReadyErr("SubmissionError")
    /\ alloc = "freed"

(***************************************************************************)
(* C3.  In a poll that observes a successful completion while another      *)
(* party still holds a reference to the buffer wrapper, the poll panics    *)
(* with "too many refs on vec" and hands out no buffer; a poll returns a   *)
(* buffer only when the future's reference was the only one.               *)
(***************************************************************************)
C3_TooManyRefsPanics ==
    [][ /\ (Observed /\ op'.ok /\ "op" \in holders') =>
               /\ lastRet' = PanicRet("too many refs on vec")
               /\ alloc' # "caller"
        /\ (Polled /\ ReturnedOk') =>
               /\ holders' = {}
               /\ alloc' = "caller" ]_vars

C3_Witness ==
    /\ retains
    /\ lastRet = PanicRet("too many refs on vec")
    /\ op.status = "observed"
    /\ op.ok
    /\ holders = {"op"}

(***************************************************************************)
(* C4.  Dropping the future does not cancel the operation and does not     *)
(* free the buffer: while the operation is in flight it holds a reference  *)
(* and the allocation is live, the drop leaves the operation and the bytes *)
(* as they were, and the allocation is freed only once neither the future  *)
(* nor the operation holds a reference.                                    *)
(***************************************************************************)
C4_DropKeepsBufferForOperation ==
    [][ /\ op'.status = "pending" => ("op" \in holders' /\ alloc' = "wrapped")
        /\ alloc' = "freed" => holders' = {}
        /\ (alive /\ ~alive') => (op' = op /\ buf' = buf) ]_vars

C4_Witness ==
    /\ ~alive
    /\ op.status = "pending"
    /\ holders = {"op"}
    /\ alloc = "wrapped"
    /\ polls >= 2

(***************************************************************************)
(* C5.  A poll made while the submitted operation has not completed        *)
(* returns Pending, leaves the future InFlight with the same token, and    *)
(* changes neither the buffer's bytes nor its reference count, however     *)
(* many such polls are made one after the other.                           *)
(***************************************************************************)
C5_PendingPollChangesNothing ==
    [][ (Polled /\ op.status = "pending" /\ op'.status = "pending") =>
            /\ lastRet' = PendingRet
            /\ state = "InFlight"
            /\ state' = "InFlight"
            /\ token' = token
            /\ token' = op.token
            /\ buf' = buf
            /\ holders' = holders
            /\ alloc' = alloc ]_vars

C5_Witness ==
    /\ polls = 4
    /\ lastRet = PendingRet
    /\ state = "InFlight"
    /\ op.status = "pending"
    /\ buf = <<Fill, Fill>>

(***************************************************************************)
(* C6.  The completion state of one future only moves forward, NotStarted, *)
(* InFlight, Resolved: no step takes it to an earlier state or out of      *)
(* Resolved, self.state is the last state the machine entered, and a       *)
(* future that returned a buffer was InFlight before it was Resolved.      *)
(***************************************************************************)
C6_StateMovesForward ==
    [][ readNo' = readNo =>
            /\ Rank(CompletionState') >= Rank(CompletionState)
            /\ CompletionState = "InFlight" => CompletionState' # "NotStarted"
            /\ CompletionState = "Resolved" => CompletionState' = "Resolved"
            /\ CompletionState' = hist'[Len(hist')]
            /\ ReturnedOk' => PassedThrough(hist', "InFlight", "Resolved") ]_vars

C6_Witness ==
    /\ ReturnedOk
    /\ state = "Resolved"
    /\ hist = <<"NotStarted", "InFlight", "Resolved">>
    /\ polls = 3

(***************************************************************************)
(* C7.  In the poll that observes the failure of the submitted read, the   *)
(* future returns Ready(Err(that error)), hands out no buffer, and lets go *)
(* of its reference to the buffer wrapper without the reference-count      *)
(* panic, whoever else holds a reference.                                  *)
(***************************************************************************)
C7_CompletionErrorIsReturned ==
    [][ (Observed /\ ~op'.ok) =>
            /\ lastRet' = ReadyErr(op'.err)
            /\ op'.err \in CompletionErrors
            /\ alloc' # "caller"
            /\ "future" \notin holders' ]_vars

C7_Witness ==
    /\ lastRet = ReadyErr("CompletionError")
    /\ op.status = "observed"
    /\ retains
    /\ holders = {"op"}
    /\ alloc = "wrapped"

(***************************************************************************)
(* C8.  read_to_mem is called at most once in the life of the future.      *)
(***************************************************************************)
C8_SubmitsAtMostOnce == submits <= 1

C8_Witness ==
    /\ submits = 1
    /\ polls = 4
    /\ op.status = "observed"
    /\ op.ok
    /\ op.n < input.len

(***************************************************************************)
(* C9.  With a resource that completes what was submitted, delivers the    *)
(* notification and lets go of the buffer on completion, run_one, once     *)
(* started on a ReadVec future, eventually returns the future's Ready      *)
(* result.                                                                 *)
(***************************************************************************)
C9_RunOneReturns ==
    (mode = "run_one" /\ ~retains) ~> (runPc = "returned" /\ lastRet.kind = "Ready")

C9_Witness ==
    /\ mode = "run_one"
    /\ runPc = "returned"
    /\ ReturnedOk
    /\ polls = 2
    /\ ~wakerRegistered

(***************************************************************************)
(* C10.  A poll that returns Pending has called poll_complete in that poll *)
(* and got Pending from it: the operation is still in flight and the       *)
(* caller's waker is registered.  The poll that submits is no exception.   *)
(***************************************************************************)
C10_PendingOnlyFromPollComplete ==
    [][ (Polled /\ lastRet'.kind = "Pending") =>
            /\ pollCompletes' = pollCompletes + 1
            /\ wakerRegistered'
            /\ op'.status = "pending"
            /\ state' = "InFlight" ]_vars

C10_Witness ==
    /\ polls = 1
    /\ submits = 1
    /\ pollCompletes = 1
    /\ lastRet = PendingRet
    /\ wakerRegistered

(***************************************************************************)
(* C11.  A poll of a future that has already returned Ready, with a        *)
(* buffer, a completion error or a submission error, faults: it panics,    *)
(* submits nothing, does not call poll_complete, and leaves the operation  *)
(* and the buffer as they were; so does every poll after that.            *)
(***************************************************************************)
C11_PollAfterReadyFaults ==
    [][ (Polled /\ lastRet.kind \in {"Ready", "Panic"}) =>
            /\ lastRet'.kind = "Panic"
            /\ submits' = submits
            /\ pollCompletes' = pollCompletes
            /\ op' = op
            /\ buf' = buf
            /\ holders' = holders ]_vars

C11_Witness ==
    /\ polls = 3
    /\ submits = 1
    /\ op.status = "rejected"
    /\ lastRet = PanicRet("invalid future state")
    /\ state = "Processing"

(***************************************************************************)
(* C12.  A read issued after the one before it has resolved starts in      *)
(* NotStarted with a reference count of one and nothing submitted, and     *)
(* what its polls return is decided by its own operation alone: Pending    *)
(* while its own operation is in flight, its own buffer with its own       *)
(* transfer in it, or its own operation's error, whatever the read before  *)
(* it resolved with.                                                       *)
(***************************************************************************)
OwnResult ==
    /\ lastRet.kind = "Pending" =>
           /\ state = "InFlight"
           /\ op.status = "pending"
           /\ op.token = token
    /\ lastRet.kind \in {"Pending", "Ready"} /\ op.status # "rejected" =>
           /\ op.file_offset = input.file_offset
           /\ requested(op.mem) = input.len
    /\ ReturnedOk =>
           /\ op.status = "observed"
           /\ op.ok
           /\ Len(lastRet.vec.bytes) = input.len
           /\ \A i \in 1..input.len :
                  lastRet.vec.bytes[i] = IF i <= op.n THEN srcByte ELSE Fill
    /\ lastRet.kind = "Ready" /\ ~lastRet.ok =>
           /\ op.status = "rejected" \/ (op.status = "observed" /\ ~op.ok)
           /\ lastRet.err = op.err
    /\ polls = 1 /\ submits = 1 /\ lastRet.kind = "Panic" => retains /\ op.ok

C12_SecondReadIsIndependent ==
    [][ /\ readNo' = readNo + 1 =>
               /\ state' = "NotStarted"
               /\ hist' = <<"NotStarted">>
               /\ token' = 0
               /\ holders' = {"future"}
               /\ alloc' = "wrapped"
               /\ submits' = 0
               /\ buf' = [i \in 1..input'.len |-> Fill]
        /\ (Polled /\ readNo >= 2) =>
               /\ OwnResult'
               /\ polls = 0 => (submits' = 1 /\ lastRet'.kind # "None") ]_vars

C12_Witness ==
    /\ readNo = 2
    /\ prevRet = ReadyErr("SubmissionError")
    /\ ReturnedOk
    /\ input.len = 2
    /\ op.n = 1
    /\ lastRet.vec.bytes = <<srcByte, Fill>>

(***************************************************************************)
(* The balloon device (src/devices/src/virtio/balloon.rs).                 *)
(***************************************************************************)
devvars == <<dev, command_socket, kill_evt, kill_written, activated, last_call>>
workervars == <<wpc, tokens, needs_interrupt, batch>>
queuevars == <<inflate_queue, deflate_queue, released>>
intvars == <<interrupt_status, interrupt_evt, evt_for>>
envvars == <<inflate_evt, deflate_evt, cmds, kicks, sent>>

\* ---- integers of the code's widths ----
\* u32 as usize: the value in the two low limbs.
u32_as_usize(v) == <<v[1], v[2], 0, 0>>
\* i32 as usize: sign extension to 64 bits.
i32_as_usize(i) ==
    IF i >= 0
    THEN <<i % Limb, i \div Limb, 0, 0>>
    ELSE LET m == -(i + 1)
         IN <<Limb - 1 - (m % Limb), Limb - 1 - (m \div Limb), Limb - 1, Limb - 1>>
\* usize as i32: the low 32 bits, read as a signed number.
usize_as_i32(u) ==
    IF u[2] < Limb \div 2 THEN u[2] * Limb + u[1] ELSE (u[2] - Limb) * Limb + u[1]
\* The carry out of limb i of a + b.
RECURSIVE carry(_, _, _)
carry(a, b, i) == IF i = 0 THEN 0 ELSE (a[i] + b[i] + carry(a, b, i - 1)) \div Limb
\* AtomicUsize::fetch_add wraps around on overflow.
wrapping_add(a, b) == [i \in 1..4 |-> (a[i] + b[i] + carry(a, b, i - 1)) % Limb]
\* read_u32::<LittleEndian> of four bytes.
read_u32_le(data) == <<data[1] + 256 * data[2], data[3] + 256 * data[4]>>
\* read_i32::<LittleEndian> of four bytes.
read_i32_le(data) == usize_as_i32(u32_as_usize(read_u32_le(data)))
\* i32::abs: the most negative value has no positive counterpart; a build
\* with overflow checks panics on it and a build without returns it as it is.
i32_abs(i, checks) ==
    IF i = I32Min
    THEN [panic |-> checks, val |-> I32Min]
    ELSE [panic |-> FALSE, val |-> IF i < 0 THEN -i ELSE i]

\* The inputs the balloon has had.
Inputs == kicks + sent + last_call.n

\* ---- the Balloon on the device thread ----
Config == [num_pages |-> num_pages, actual_pages |-> actual_pages]

\* A faulty variant of write_config: the value is stored in num_pages.
write_config_num_pages(config, offset, data) ==
    IF offset # 4 \/ Len(data) # 4
    THEN config
    ELSE [config EXCEPT !.num_pages = u32_as_usize(read_u32_le(data))]

\* Balloon::write_config(offset, data).
write_config(config, offset, data) ==
    IF offset # 4 \/ Len(data) # 4
    THEN config
    ELSE [config EXCEPT !.actual_pages = u32_as_usize(read_u32_le(data))]

\* Balloon::keep_fds: the unwrap faults when the socket is no longer held.
keep_fds(socket) == IF socket = "device" THEN "fd" ELSE "panic"

\* A faulty variant of drop_balloon: the kill event is taken and not written.
drop_balloon_silent(kill, written) == [kill_evt |-> "None", kill_written |-> written]

\* Drop for Balloon: the kill event, if one is recorded, is taken and written.
drop_balloon(kill, written) ==
    IF kill = "Some"
    THEN [kill_evt |-> "None", kill_written |-> written + 1]
    ELSE [kill_evt |-> kill, kill_written |-> written]

\* Balloon::activate with nq queues and ne queue events; kill_ok and spawn_ok
\* say whether the kill event pair can be created and the thread spawned.
\* The result tells what the device holds afterwards, whether a worker runs
\* and whether the call faulted (command_socket.take().unwrap() on None).
\* A failed spawn drops the closure, and with it the socket moved into it.
activate(socket, kill, nq, ne, kill_ok, spawn_ok) ==
    IF nq # 2 \/ ne # 2
    THEN [command_socket |-> socket, kill_evt |-> kill, started |-> FALSE, panic |-> FALSE]
    ELSE IF ~kill_ok
    THEN [command_socket |-> socket, kill_evt |-> kill, started |-> FALSE, panic |-> FALSE]
    ELSE IF socket # "device"
    THEN [command_socket |-> socket, kill_evt |-> "Some", started |-> FALSE, panic |-> TRUE]
    ELSE IF spawn_ok
    THEN [command_socket |-> "worker", kill_evt |-> "Some", started |-> TRUE, panic |-> FALSE]
    ELSE [command_socket |-> "closed", kill_evt |-> "Some", started |-> FALSE, panic |-> FALSE]

\* The guest writes the device's configuration space.
WriteConfig ==
    /\ dev = "alive"
    /\ Inputs < MaxInputs
    /\ \E wr \in CfgWrites :
          LET c == write_config(Config, wr.offset, wr.data)
          IN /\ num_pages' = c.num_pages
             /\ actual_pages' = c.actual_pages
             /\ last_call' = [fn |-> "write_config", offset |-> wr.offset,
                              data |-> wr.data, n |-> last_call.n + 1]
    /\ UNCHANGED <<dev, command_socket, kill_evt, kill_written, activated>>
    /\ UNCHANGED <<workervars, queuevars, intvars, envvars, applied, overflow_checks>>
    /\ UNCHANGED rvars

\* The transport asks which descriptors the device needs kept open.
KeepFds ==
    /\ dev = "alive"
    /\ Inputs < MaxInputs
    /\ dev' = IF keep_fds(command_socket) = "panic" THEN "panicked" ELSE dev
    /\ last_call' = [fn |-> "keep_fds", offset |-> 0, data |-> <<>>, n |-> last_call.n + 1]
    /\ UNCHANGED <<command_socket, kill_evt, kill_written, activated>>
    /\ UNCHANGED <<num_pages, actual_pages>>
    /\ UNCHANGED <<workervars, queuevars, intvars, envvars, applied, overflow_checks>>
    /\ UNCHANGED rvars

\* The transport activates the device.  It does so again only while no worker
\* runs.
Activate ==
    /\ dev = "alive"
    /\ wpc = "none"
    /\ \E nq \in {1, 2}, ne \in {2, 3}, kill_ok \in BOOLEAN, spawn_ok \in BOOLEAN :
          LET r == activate(command_socket, kill_evt, nq, ne, kill_ok, spawn_ok)
          IN /\ command_socket' = r.command_socket
             /\ kill_evt' = r.kill_evt
             /\ dev' = IF r.panic THEN "panicked" ELSE dev
             /\ wpc' = IF r.started THEN "poll" ELSE wpc
    /\ activated' = TRUE
    /\ UNCHANGED <<last_call, kill_written, num_pages, actual_pages, tokens, needs_interrupt, batch>>
    /\ UNCHANGED <<queuevars, intvars, envvars, applied, overflow_checks>>
    /\ UNCHANGED rvars

\* The Balloon is dropped, and with it the socket if the device still holds
\* it.
DropBalloon ==
    /\ dev \in {"alive", "panicked"}
    /\ LET r == drop_balloon(kill_evt, kill_written)
       IN /\ kill_evt' = r.kill_evt
          /\ kill_written' = r.kill_written
    /\ dev' = "dropped"
    /\ command_socket' = IF command_socket = "device" THEN "closed" ELSE command_socket
    /\ UNCHANGED <<activated, last_call, num_pages, actual_pages>>
    /\ UNCHANGED <<workervars, queuevars, intvars, envvars, applied, overflow_checks>>
    /\ UNCHANGED rvars

\* ---- the worker thread ----
\* Queue::iter hands out the chains of the available ring, in order, and
\* leaves the ring empty; a ring holds QUEUE_SIZE chains at most.
queue_iter(queue) == queue.avail
\* Queue::add_used(mem, desc_index, len).
add_used(queue, desc_index, len) ==
    [queue EXCEPT !.used = Append(@, [id |-> desc_index, len |-> len])]
\* GuestMemory::dont_need_range(addr, count) fails outside guest memory.
dont_need_range(addr, count) == addr + count <= MemPages * 2^VIRTIO_BALLOON_PFN_SHIFT

valid_inflate_desc(desc) == ~desc.write_only /\ desc.len % 4 = 0

\* The 'addr_loop of process_inflate_deflate from entry i (0-based) on: the
\* pages released, added to rel.
RECURSIVE addr_loop(_, _, _)
addr_loop(desc, i, rel) ==
    IF i >= desc.len \div 4 THEN rel
    ELSE IF i >= desc.room THEN rel
    ELSE IF desc.mem[i + 1] < 0 THEN addr_loop(desc, i + 1, rel)
    ELSE LET guest_address == desc.mem[i + 1] * 2^VIRTIO_BALLOON_PFN_SHIFT
         IN IF ~dont_need_range(guest_address, 2^VIRTIO_BALLOON_PFN_SHIFT)
            THEN addr_loop(desc, i + 1, rel)
            ELSE addr_loop(desc, i + 1, rel \cup {guest_address})

\* The pages released by the chains descs, added to rel.
release_all(descs, rel) ==
    rel \cup UNION { addr_loop(descs[k], 0, {}) :
                       k \in {j \in 1..Len(descs) : valid_inflate_desc(descs[j])} }

\* The second loop of process_inflate_deflate: the recorded heads go to the
\* used ring, one add_used each, in order.
add_all_used(queue, heads) ==
    [queue EXCEPT !.used =
        @ \o [k \in 1..Len(heads) |-> add_used(EmptyQueue, heads[k], 0).used[1]]]

\* A faulty variant of process_inflate_deflate: the head is recorded inside
\* the branch of the valid inflate descriptors.
process_inflate_deflate_valid_only(queue, rel, inflate) ==
    LET descs == queue_iter(queue)
        taken == IF inflate THEN SelectSeq(descs, valid_inflate_desc) ELSE descs
        used_desc_heads == [k \in 1..Len(taken) |-> taken[k].index]
        used_count == Len(taken)
    IN [queue |-> add_all_used([queue EXCEPT !.avail = <<>>], used_desc_heads),
        released |-> IF inflate THEN release_all(descs, rel) ELSE rel,
        used_count |-> used_count,
        ret |-> used_count > 0,
        panic |-> used_count > QUEUE_SIZE]

\* Worker::process_inflate_deflate(inflate) on the queue it selects.  The
\* array of heads has QUEUE_SIZE places: recording one more faults.
process_inflate_deflate(queue, rel, inflate) ==
    LET descs == queue_iter(queue)
        used_desc_heads == [k \in 1..Len(descs) |-> descs[k].index]
        used_count == Len(descs)
    IN IF used_count > QUEUE_SIZE
       THEN [queue |-> [queue EXCEPT !.avail = <<>>],
             released |-> IF inflate THEN release_all(descs, rel) ELSE rel,
             used_count |-> QUEUE_SIZE, ret |-> FALSE, panic |-> TRUE]
       ELSE [queue |-> add_all_used([queue EXCEPT !.avail = <<>>], used_desc_heads),
             released |-> IF inflate THEN release_all(descs, rel) ELSE rel,
             used_count |-> used_count,
             ret |-> used_count > 0,
             panic |-> FALSE]

\* The POLL_COMMAND_SOCKET arm of Worker::run for a datagram: recv keeps the
\* first four bytes, and a count of 4 is an increment of num_pages.
command(pages, datagram, checks) ==
    IF Len(datagram) < 4
    THEN [outcome |-> "ignored", num_pages |-> pages, increment |-> 0]
    ELSE LET increment == read_i32_le(SubSeq(datagram, 1, 4))
             np == usize_as_i32(pages)
             a == i32_abs(increment, checks)
         IN IF increment < 0 /\ a.panic
            THEN [outcome |-> "panic", num_pages |-> pages, increment |-> increment]
            ELSE IF increment < 0 /\ a.val > np
            THEN [outcome |-> "rejected", num_pages |-> pages, increment |-> increment]
            ELSE [outcome |-> "applied",
                  num_pages |-> wrapping_add(pages, i32_as_usize(increment)),
                  increment |-> increment]

Interrupt == [status |-> interrupt_status, evt |-> interrupt_evt, evt_for |-> evt_for]

\* A faulty variant of signal: the event is written first.
signal_write_first(int, bit, step) ==
    IF step = 1
    THEN [int EXCEPT !.evt = @ + 1, !.evt_for = @ \cup {bit}]
    ELSE [int EXCEPT !.status = @ \cup {bit}]

\* Worker::signal_used_queue and Worker::signal_config_changed, each with its
\* bit: step 1 is the fetch_or on the status, step 2 the write of the event.
signal(int, bit, step) ==
    IF step = 1
    THEN [int EXCEPT !.status = @ \cup {bit}]
    ELSE [int EXCEPT !.evt = @ + 1, !.evt_for = @ \cup {bit}]

\* A faulty variant of after_tokens: the used ring is always signalled.
after_tokens_always(needs) == "used_or"

\* Worker::run after the tokens of a poll: lines 191-193.
after_tokens(needs) == IF needs THEN "used_or" ELSE "poll"

\* The tokens a poll returns: one for each source that is ready.
ReadyTokens ==
    (IF inflate_evt THEN <<POLL_INFLATE>> ELSE <<>>)
    \o (IF deflate_evt THEN <<POLL_DEFLATE>> ELSE <<>>)
    \o (IF cmds # <<>> THEN <<POLL_COMMAND_SOCKET>> ELSE <<>>)
    \o (IF kill_written > 0 THEN <<POLL_KILL>> ELSE <<>>)

InstallInterrupt(int) ==
    /\ interrupt_status' = int.status
    /\ interrupt_evt' = int.evt
    /\ evt_for' = int.evt_for

\* poller.poll returns the tokens of the ready sources, or fails, which ends
\* the loop.
WorkerPoll ==
    /\ wpc = "poll"
    /\ \/ /\ ReadyTokens # <<>>
          /\ tokens' = ReadyTokens
          /\ wpc' = "tokens"
       \/ /\ tokens' = <<>>
          /\ wpc' = "exited"
    /\ needs_interrupt' = FALSE
    /\ batch' = NoBatch
    /\ UNCHANGED <<devvars, queuevars, intvars, envvars>>
    /\ UNCHANGED <<num_pages, actual_pages, applied, overflow_checks>>
    /\ UNCHANGED rvars

\* The POLL_INFLATE and POLL_DEFLATE arms: the queue event is read, which may
\* fail and end the loop, and the queue is processed.
WorkerQueue ==
    /\ wpc = "tokens"
    /\ tokens # <<>>
    /\ Head(tokens) \in {POLL_INFLATE, POLL_DEFLATE}
    /\ LET inflate == Head(tokens) = POLL_INFLATE
           r == process_inflate_deflate(IF inflate THEN inflate_queue ELSE deflate_queue,
                                        released, inflate)
       IN \/ /\ wpc' = "exited"
             /\ UNCHANGED <<tokens, needs_interrupt, batch, queuevars, inflate_evt,
                            deflate_evt>>
          \/ /\ inflate_evt' = IF inflate THEN FALSE ELSE inflate_evt
             /\ deflate_evt' = IF inflate THEN deflate_evt ELSE FALSE
             /\ inflate_queue' = IF inflate THEN r.queue ELSE inflate_queue
             /\ deflate_queue' = IF inflate THEN deflate_queue ELSE r.queue
             /\ released' = r.released
             /\ needs_interrupt' = (needs_interrupt \/ r.ret)
             /\ batch' = [batch EXCEPT !.placed = @ + (IF r.panic THEN 0 ELSE r.used_count)]
             /\ tokens' = Tail(tokens)
             /\ wpc' = IF r.panic THEN "panicked" ELSE wpc
    /\ UNCHANGED <<devvars, intvars, cmds, kicks, sent>>
    /\ UNCHANGED <<num_pages, actual_pages, applied, overflow_checks>>
    /\ UNCHANGED rvars

\* The POLL_COMMAND_SOCKET arm up to the fetch_add.
WorkerCommand ==
    /\ wpc = "tokens"
    /\ tokens # <<>>
    /\ Head(tokens) = POLL_COMMAND_SOCKET
    /\ LET r == command(num_pages, Head(cmds), overflow_checks)
       IN /\ num_pages' = r.num_pages
          /\ applied' = IF r.outcome = "applied" THEN Append(applied, r.increment)
                        ELSE applied
          /\ wpc' = CASE r.outcome = "panic" -> "panicked"
                      [] r.outcome = "applied" -> "config_or"
                      [] OTHER -> wpc
    /\ cmds' = Tail(cmds)
    /\ tokens' = Tail(tokens)
    /\ UNCHANGED <<devvars, queuevars, intvars, needs_interrupt, batch>>
    /\ UNCHANGED <<inflate_evt, deflate_evt, kicks, sent>>
    /\ UNCHANGED <<actual_pages, overflow_checks>>
    /\ UNCHANGED rvars

\* The POLL_KILL arm: break 'poll.
WorkerKill ==
    /\ wpc = "tokens"
    /\ tokens # <<>>
    /\ Head(tokens) = POLL_KILL
    /\ wpc' = "exited"
    /\ UNCHANGED <<tokens, needs_interrupt, batch>>
    /\ UNCHANGED <<devvars, queuevars, intvars, envvars>>
    /\ UNCHANGED <<num_pages, actual_pages, applied, overflow_checks>>
    /\ UNCHANGED rvars

\* signal_config_changed, one atomic operation at a time.
SignalConfigChanged ==
    /\ wpc \in {"config_or", "config_write"}
    /\ InstallInterrupt(signal(Interrupt, INTERRUPT_STATUS_CONFIG_CHANGED,
                               IF wpc = "config_or" THEN 1 ELSE 2))
    /\ wpc' = IF wpc = "config_or" THEN "config_write" ELSE "tokens"
    /\ UNCHANGED <<tokens, needs_interrupt, batch>>
    /\ UNCHANGED <<devvars, queuevars, envvars>>
    /\ UNCHANGED <<num_pages, actual_pages, applied, overflow_checks>>
    /\ UNCHANGED rvars

\* The tokens are handled: the used ring is signalled if a queue asked for it.
WorkerAfterTokens ==
    /\ wpc = "tokens"
    /\ tokens = <<>>
    /\ wpc' = after_tokens(needs_interrupt)
    /\ UNCHANGED <<tokens, needs_interrupt, batch>>
    /\ UNCHANGED <<devvars, queuevars, intvars, envvars>>
    /\ UNCHANGED <<num_pages, actual_pages, applied, overflow_checks>>
    /\ UNCHANGED rvars

\* signal_used_queue, one atomic operation at a time.
SignalUsedQueue ==
    /\ wpc \in {"used_or", "used_write"}
    /\ InstallInterrupt(signal(Interrupt, INTERRUPT_STATUS_USED_RING,
                               IF wpc = "used_or" THEN 1 ELSE 2))
    /\ wpc' = IF wpc = "used_or" THEN "used_write" ELSE "poll"
    /\ batch' = IF wpc = "used_write" THEN [batch EXCEPT !.signalled = TRUE] ELSE batch
    /\ UNCHANGED <<tokens, needs_interrupt>>
    /\ UNCHANGED <<devvars, queuevars, envvars>>
    /\ UNCHANGED <<num_pages, actual_pages, applied, overflow_checks>>
    /\ UNCHANGED rvars

Worker ==
    \/ WorkerPoll \/ WorkerQueue \/ WorkerCommand \/ WorkerKill
    \/ SignalConfigChanged \/ WorkerAfterTokens \/ SignalUsedQueue

\* ---- the guest and the host ----
\* A worker thread is running.
Running == wpc \notin {"none", "exited", "panicked"}

\* The guest posts descriptors on a queue of the device, as many as the ring
\* has room for, and signals the queue's event.
GuestPost(postings) ==
    /\ Running
    /\ Inputs < MaxInputs
    /\ \E inflate \in BOOLEAN, post \in postings :
          LET queue == IF inflate THEN inflate_queue ELSE deflate_queue
              first == Len(queue.used) + Len(queue.avail)
              descs == [k \in 1..Len(post) |->
                          [index |-> (first + k - 1) % QUEUE_SIZE,
                           write_only |-> post[k].write_only, len |-> post[k].len,
                           room |-> post[k].room, mem |-> post[k].mem]]
              q == [queue EXCEPT !.avail = @ \o descs]
          IN /\ Len(queue.avail) + Len(post) <= QUEUE_SIZE
             /\ inflate_queue' = IF inflate THEN q ELSE inflate_queue
             /\ deflate_queue' = IF inflate THEN deflate_queue ELSE q
             /\ inflate_evt' = (inflate \/ inflate_evt)
             /\ deflate_evt' = (~inflate \/ deflate_evt)
    /\ kicks' = kicks + 1
    /\ UNCHANGED <<devvars, workervars, intvars, released, cmds, sent>>
    /\ UNCHANGED <<num_pages, actual_pages, applied, overflow_checks>>
    /\ UNCHANGED rvars

GuestKick == GuestPost(Postings)

\* The host sends a datagram on its end of the command socket.
SendCommand ==
    /\ Running
    /\ Inputs < MaxInputs
    /\ \E d \in Datagrams : cmds' = Append(cmds, d)
    /\ sent' = sent + 1
    /\ UNCHANGED <<devvars, workervars, queuevars, intvars>>
    /\ UNCHANGED <<inflate_evt, deflate_evt, kicks>>
    /\ UNCHANGED <<num_pages, actual_pages, applied, overflow_checks>>
    /\ UNCHANGED rvars

\* ---- the balloon's specifications ----
\* The future stays as constructed while the balloon runs.
BalloonInit ==
    /\ BalloonNew
    /\ overflow_checks \in BOOLEAN
    /\ input = [len |-> 0, file_offset |-> 0]
    /\ buf = <<>>
    /\ state = "NotStarted"
    /\ token = 0
    /\ alive = TRUE
    /\ holders = {"future"}
    /\ alloc = "wrapped"
    /\ op = NoOp
    /\ srcByte = 0
    /\ retains = FALSE
    /\ wakerRegistered = FALSE
    /\ polls = 0
    /\ submits = 0
    /\ pollCompletes = 0
    /\ lastRet = NoRet
    /\ hist = <<"NotStarted">>
    /\ mode = "manual"
    /\ runPc = "idle"
    /\ readNo = 1
    /\ prevRet = NoRet

BalloonNext ==
    \/ WriteConfig \/ KeepFds \/ Activate \/ DropBalloon
    \/ WorkerPoll \/ WorkerQueue \/ WorkerCommand \/ WorkerKill
    \/ SignalConfigChanged \/ WorkerAfterTokens \/ SignalUsedQueue
    \/ GuestKick \/ SendCommand

BalloonSpec == BalloonInit /\ [][BalloonNext]_vars

\* The worker thread is scheduled as long as it has a step to take.
BalloonLive == BalloonSpec /\ WF_vars(Worker)

BalloonTypeOK ==
    /\ dev \in {"alive", "panicked", "dropped"}
    /\ command_socket \in {"device", "worker", "closed"}
    /\ kill_evt \in {"None", "Some"}
    /\ \A i \in 1..4 : num_pages[i] \in 0..(Limb - 1) /\ actual_pages[i] \in 0..(Limb - 1)
    /\ wpc \in {"none", "poll", "tokens", "config_or", "config_write", "used_or",
                "used_write", "exited", "panicked"}
    /\ interrupt_status \subseteq {INTERRUPT_STATUS_USED_RING, INTERRUPT_STATUS_CONFIG_CHANGED}
    /\ Len(inflate_queue.avail) <= QUEUE_SIZE
    /\ Len(deflate_queue.avail) <= QUEUE_SIZE
    /\ Len(cmds) <= MaxInputs

(***************************************************************************)
(* Vocabulary of the balloon's properties.                                 *)
(***************************************************************************)
\* This step is a call of Balloon::write_config.
WroteConfig == last_call'.n = last_call.n + 1 /\ last_call'.fn = "write_config"
\* The worker thread has ended: run returned, or the thread faulted.
Terminated == wpc \in {"exited", "panicked"}

(***************************************************************************)
(* C13.  A call of Balloon::write_config changes the device's state only   *)
(* when the offset is 4 and the data is 4 bytes long: then actual_pages    *)
(* becomes the little-endian 32-bit value of the data; for every other     *)
(* offset or length actual_pages stays as it was; and in no case does the  *)
(* call change num_pages or anything else of the device.                   *)
(***************************************************************************)
C13_WriteConfigFrame ==
    [][ WroteConfig =>
          LET d == last_call'.data
          IN /\ num_pages' = num_pages
             /\ IF last_call'.offset = 4 /\ Len(d) = 4
                THEN actual_pages' = <<d[1] + 256 * d[2], d[3] + 256 * d[4], 0, 0>>
                ELSE actual_pages' = actual_pages
             /\ UNCHANGED <<dev, command_socket, kill_evt, kill_written, activated>>
             /\ UNCHANGED <<workervars, queuevars, intvars, envvars, applied>> ]_vars

\* The guest has written actual_pages while num_pages was 2.
C13_Witness ==
    /\ last_call.fn = "write_config"
    /\ last_call.offset = 4
    /\ last_call.data = <<0, 1, 0, 128>>
    /\ actual_pages = <<256, 32768, 0, 0>>
    /\ num_pages = <<2, 0, 0, 0>>

(***************************************************************************)
(* C14.  The worker sets an interrupt's bit in the shared status before it *)
(* writes the interrupt event for it: in every state, whatever the other   *)
(* threads have done meanwhile, each interrupt whose event has been        *)
(* written, and the one whose event is about to be written, has its bit    *)
(* set in the status.                                                      *)
(***************************************************************************)
C14_StatusBeforeEvent ==
    /\ \A bit \in evt_for : bit \in interrupt_status
    /\ wpc = "config_write" => INTERRUPT_STATUS_CONFIG_CHANGED \in interrupt_status
    /\ wpc = "used_write" => INTERRUPT_STATUS_USED_RING \in interrupt_status

\* Both interrupts have been signalled.
C14_Witness ==
    /\ evt_for = {INTERRUPT_STATUS_USED_RING, INTERRUPT_STATUS_CONFIG_CHANGED}
    /\ interrupt_evt >= 2

(***************************************************************************)
(* C15.  The statement as claimed: whenever the worker waits for events    *)
(* again or has left its loop, a batch that placed a descriptor on a used  *)
(* ring has signalled the used-ring interrupt (bit set, event written),    *)
(* and a batch that placed none has not.                                   *)
(***************************************************************************)
C15_SignalsBeforeWaitOrExit ==
    /\ (wpc \in {"poll", "exited"} /\ batch.placed > 0)
          => (batch.signalled /\ INTERRUPT_STATUS_USED_RING \in interrupt_status)
    /\ batch.signalled => batch.placed > 0

(***************************************************************************)
(* C15, amended.  Whenever the worker waits for events again, the batch    *)
(* before, if it placed a descriptor on a used ring, has signalled the     *)
(* used-ring interrupt (bit set, event written); and the worker signals    *)
(* the used-ring interrupt in no batch that placed none.  A batch that     *)
(* leaves the loop (the kill event, a queue event that cannot be read, a   *)
(* fault) ends without the signal.                                         *)
(***************************************************************************)
C15_SignalsBeforeNextWait ==
    /\ (wpc = "poll" /\ batch.placed > 0)
          => (batch.signalled /\ INTERRUPT_STATUS_USED_RING \in interrupt_status)
    /\ wpc \in {"used_or", "used_write"} => batch.placed > 0
    /\ batch.signalled => batch.placed > 0

\* A batch has placed descriptors, signalled, and the worker waits again.
C15_Witness ==
    /\ wpc = "poll"
    /\ batch.placed > 0
    /\ batch.signalled
    /\ Len(inflate_queue.used) > 0

(***************************************************************************)
(* C16.  The statement as claimed.  num_pages is the sum of the increments *)
(* applied, it is never negative, and a command whose increment is         *)
(* negative and larger in magnitude than num_pages is rejected: the worker *)
(* goes on, num_pages stays and no config-changed interrupt is raised.     *)
(* This holds for every 32-bit increment, the most negative one included.  *)
(***************************************************************************)
\* The sum of the increments, as a 64-bit two's complement number.
RECURSIVE SumApplied(_)
SumApplied(incs) ==
    IF incs = <<>> THEN ZeroPages
    ELSE wrapping_add(SumApplied(SubSeq(incs, 1, Len(incs) - 1)),
                      i32_as_usize(incs[Len(incs)]))
\* A 64-bit two's complement number is negative.
Negative(u) == u[4] >= Limb \div 2
\* The worker is about to handle a 4-byte command whose increment is negative
\* and larger in magnitude than num_pages (which is below 2^15 here).
ExceedingCommand ==
    /\ wpc = "tokens"
    /\ tokens # <<>>
    /\ Head(tokens) = POLL_COMMAND_SOCKET
    /\ Len(Head(cmds)) = 4
    /\ num_pages[2] = 0 /\ num_pages[3] = 0 /\ num_pages[4] = 0
    /\ num_pages[1] < Limb \div 2
    /\ read_i32_le(Head(cmds)) < -num_pages[1]
\* This step handles the command at the head of the socket.
HandledCommand == cmds' = Tail(cmds)

C16_NumPagesIsSumAndRejects ==
    [][ /\ num_pages' = SumApplied(applied')
        /\ ~Negative(num_pages')
        /\ (ExceedingCommand /\ HandledCommand)
              => /\ num_pages' = num_pages
                 /\ applied' = applied
                 /\ wpc' = "tokens"
                 /\ UNCHANGED intvars ]_vars

\* The most negative increment has arrived while num_pages is 2.
C16_Witness ==
    /\ ExceedingCommand
    /\ num_pages = <<2, 0, 0, 0>>
    /\ Head(cmds) = <<0, 0, 0, 128>>

(***************************************************************************)
(* The worker and the guest alone, the guest posting up to a whole ring of *)
(* descriptors at a time.                                                  *)
(***************************************************************************)
GuestFill == GuestPost(RingPostings)

QueueNext ==
    \/ Activate \/ GuestFill
    \/ WorkerPoll \/ WorkerQueue \/ WorkerAfterTokens \/ SignalUsedQueue

QueueSpec == BalloonInit /\ [][QueueNext]_vars

(***************************************************************************)
(* C17.  One call of process_inflate_deflate, on the inflate queue or the  *)
(* deflate queue: every descriptor that was on the queue's available ring  *)
(* is appended to the queue's used ring once, with length 0, in the order  *)
(* of the available ring, valid inflate descriptor or not; the other queue *)
(* is left alone; the call reports true exactly when it took a descriptor; *)
(* and it records QUEUE_SIZE heads at most, so that it does not fault.     *)
(***************************************************************************)
\* This step is the queue arm of the worker running process_inflate_deflate.
ProcessedQueue ==
    /\ wpc = "tokens"
    /\ tokens # <<>>
    /\ Head(tokens) \in {POLL_INFLATE, POLL_DEFLATE}
    /\ tokens' = Tail(tokens)

C19_FailedActivateChangesNothing ==
    wpc = "none" =>
        /\ dev # "panicked"
        /\ kill_evt = "None"
        /\ kill_written = 0
        /\ dev = "alive" => command_socket = "device"

\* A call of activate has returned without starting a worker.
C19_Witness ==
    /\ activated
    /\ wpc = "none"
    /\ dev = "alive"

=============================================================================
